---- MODULE Spec2Model ----
(***************************************************************************)
(* Model of the ASGI tracing middleware                                    *)
(*   src/ext/opentelemetry-ext-asgi/src/opentelemetry/ext/asgi/__init__.py *)
(* OpenTelemetryMiddleware.__call__ with its two closures wrapped_receive  *)
(* and wrapped_send, and the helpers get_header_from_scope,                *)
(* get_default_span_name and collect_request_attributes.                   *)
(*                                                                         *)
(* Python values are modelled as follows.  A dict is a function whose      *)
(* DOMAIN is the set of keys present, so d[k] raises KeyError exactly when *)
(* k \notin DOMAIN d and d.get(k) is None exactly then.  A value whose     *)
(* type matters to the code (the raw status of http.response.start) is a   *)
(* tagged record: IntV(n), StrV(s), NoneV.  A str that the code parses     *)
(* character by character is a sequence of code points, a bytes object is  *)
(* a sequence of byte values.  An exception is a record naming its type    *)
(* and the place that raised it.                                           *)
(*                                                                         *)
(* The tracer (start_span, set_attribute, set_status, update_name, end)    *)
(* is an external collaborator: a span is a record in the sequence spans,  *)
(* its id is its index.  use_span only installs the span as the current    *)
(* span and restores the previous one on exit (end_on_exit defaults to     *)
(* False), it never ends the span, so it leaves the span records alone.    *)
(***************************************************************************)
EXTENDS Integers, Sequences, FiniteSets, TLC

(* ------------------------------ bounds -------------------------------- *)

\* number of requests the transport runs concurrently through one middleware
NumRequests == 2
\* total number of wrapped receive/send invocations over all requests
MaxInv == 2
\* number of wrapped receive/send invocations of the one HTTP exchange observed
\* in time
MaxExchange == 3

Requests == 1..NumRequests

(* --------------------------- Python values ---------------------------- *)

NoneV == [k |-> "none"]
IntV(n) == [k |-> "int", n |-> n]
StrV(s) == [k |-> "str", s |-> s]

NoExc == [type |-> "", at |-> ""]
Exc(t, where) == [type |-> t, at |-> where]

\* the digits str() writes
Digits == <<"0", "1", "2", "3", "4", "5", "6", "7", "8", "9">>

\* A character of a str that the code parses is its code point.  The
\* printable ASCII characters U+0020..U+005F and U+0061..U+007E, in code
\* point order, give the code points of a text written out in this module.
AsciiLow ==
  << " ", "!", "\"", "#", "$", "%", "&", "'", "(", ")", "*", "+", ",", "-",
     ".", "/", "0", "1", "2", "3", "4", "5", "6", "7", "8", "9", ":", ";",
     "<", "=", ">", "?", "@", "A", "B", "C", "D", "E", "F", "G", "H", "I",
     "J", "K", "L", "M", "N", "O", "P", "Q", "R", "S", "T", "U", "V", "W",
     "X", "Y", "Z", "[", "\\", "]", "^", "_">>
AsciiHigh ==
  << "a", "b", "c", "d", "e", "f", "g", "h", "i", "j", "k", "l", "m", "n",
     "o", "p", "q", "r", "s", "t", "u", "v", "w", "x", "y", "z", "{", "|",
     "}", "~">>
\* ord(c)
Ord(c) ==
  IF \E i \in 1..Len(AsciiLow) : AsciiLow[i] = c
  THEN 31 + (CHOOSE i \in 1..Len(AsciiLow) : AsciiLow[i] = c)
  ELSE 96 + (CHOOSE i \in 1..Len(AsciiHigh) : AsciiHigh[i] = c)
\* the str of the characters t
Text(t) == [i \in 1..Len(t) |-> Ord(t[i])]

Underscore == Ord("_")
Plus == Ord("+")
Minus == Ord("-")
Backslash == Ord("\\")
SingleQuote == Ord("'")
DoubleQuote == Ord("\"")

\* the decimal digits int() reads: the ten digits of a script are consecutive
\* code points, and this is the digit zero of each script (U+0030 for ASCII,
\* U+0660 Arabic-Indic, U+06F0 Extended Arabic-Indic, ..., U+1E950 Adlam)
DecimalZeros ==
  {48, 1632, 1776, 1984, 2406, 2534, 2662, 2790, 2918, 3046, 3174, 3302,
   3430, 3558, 3664, 3792, 3872, 4160, 4240, 6112, 6160, 6470, 6608, 6784,
   6800, 6992, 7088, 7232, 7248, 42528, 43216, 43264, 43472, 43504, 43600,
   44016, 65296, 66720, 68912, 69734, 69872, 69942, 70096, 70384, 70736,
   70864, 71248, 71360, 71472, 71904, 72016, 72784, 73040, 73120, 92768,
   92864, 93008, 120782, 120792, 120802, 120812, 120822, 123200, 123632,
   125264, 130032}
IsDigit(c) == \E z \in DecimalZeros : c >= z /\ c <= z + 9
DigitVal(c) == c - (CHOOSE z \in DecimalZeros : c >= z /\ c <= z + 9)

\* the characters int() strips from both ends of a str: U+0009..U+000D,
\* U+0020, U+0085, U+00A0, U+1680, U+2000..U+200A, U+2028, U+2029, U+202F,
\* U+205F, U+3000
Whitespace ==
  {9, 10, 11, 12, 13, 32, 133, 160, 5760, 8192, 8193, 8194, 8195, 8196,
   8197, 8198, 8199, 8200, 8201, 8202, 8232, 8233, 8239, 8287, 12288}
IsSpace(c) == c \in Whitespace

RECURSIVE LStrip(_)
LStrip(s) == IF s # <<>> /\ IsSpace(Head(s)) THEN LStrip(Tail(s)) ELSE s
RECURSIVE RStrip(_)
RStrip(s) ==
  IF s # <<>> /\ IsSpace(s[Len(s)]) THEN RStrip(SubSeq(s, 1, Len(s) - 1)) ELSE s
Strip(s) == RStrip(LStrip(s))

\* the digits of an int literal: digit groups joined by single underscores
ValidDigits(b) ==
  /\ Len(b) > 0
  /\ IsDigit(b[1])
  /\ IsDigit(b[Len(b)])
  /\ \A i \in 1..Len(b) : IsDigit(b[i]) \/ b[i] = Underscore
  /\ \A i \in 1..(Len(b) - 1) : ~(b[i] = Underscore /\ b[i + 1] = Underscore)

RECURSIVE DigitsValue(_, _)
DigitsValue(b, acc) ==
  IF b = <<>> THEN acc
  ELSE IF Head(b) = Underscore THEN DigitsValue(Tail(b), acc)
  ELSE DigitsValue(Tail(b), 10 * acc + DigitVal(Head(b)))

\* sys.get_int_max_str_digits(), the default: int() refuses a str of more
\* digits
int_max_str_digits == 4300
\* the number of digits of an int literal, its underscores left out
NumDigits(b) == Cardinality({i \in 1..Len(b) : b[i] # Underscore})

\* int(s) for a str s: surrounding whitespace is stripped, one optional sign,
\* then at most int_max_str_digits base-10 digits; anything else raises
\* ValueError
IntOfStr(s) ==
  LET t == Strip(s)
      signed == t # <<>> /\ Head(t) \in {Plus, Minus}
      body == IF signed THEN Tail(t) ELSE t
      sign == IF signed /\ Head(t) = Minus THEN -1 ELSE 1
  IN IF ValidDigits(body) /\ NumDigits(body) <= int_max_str_digits
     THEN [raised |-> "", v |-> sign * DigitsValue(body, 0)]
     ELSE [raised |-> "ValueError", v |-> 0]

\* int(x): an int is itself, a str is parsed, None raises TypeError
PyInt(x) ==
  CASE x.k = "int" -> [raised |-> "", v |-> x.n]
    [] x.k = "str" -> IntOfStr(x.s)
    [] x.k = "none" -> [raised |-> "TypeError", v |-> 0]

HexDigits ==
  Text(<<"0", "1", "2", "3", "4", "5", "6", "7", "8", "9",
         "a", "b", "c", "d", "e", "f">>)
\* n in hexadecimal, in the given number of digits
RECURSIVE Hex(_, _)
Hex(n, width) ==
  IF width = 0 THEN <<>>
  ELSE Hex(n \div 16, width - 1) \o <<HexDigits[(n % 16) + 1]>>

\* the ranges (first, last) of the characters from U+007F on that
\* str.isprintable() rejects: controls, format and separator characters,
\* surrogates, private use and unassigned code points, up to U+10FFFF
NonPrintable ==
  << <<127, 160>>, <<173, 173>>, <<888, 889>>, <<896, 899>>, <<907, 907>>,
     <<909, 909>>, <<930, 930>>, <<1328, 1328>>, <<1367, 1368>>,
     <<1419, 1420>>, <<1424, 1424>>, <<1480, 1487>>, <<1515, 1518>>,
     <<1525, 1541>>, <<1564, 1564>>, <<1757, 1757>>, <<1806, 1807>>,
     <<1867, 1868>>, <<1970, 1983>>, <<2043, 2044>>, <<2094, 2095>>,
     <<2111, 2111>>, <<2140, 2141>>, <<2143, 2143>>, <<2155, 2159>>,
     <<2191, 2199>>, <<2274, 2274>>, <<2436, 2436>>, <<2445, 2446>>,
     <<2449, 2450>>, <<2473, 2473>>, <<2481, 2481>>, <<2483, 2485>>,
     <<2490, 2491>>, <<2501, 2502>>, <<2505, 2506>>, <<2511, 2518>>,
     <<2520, 2523>>, <<2526, 2526>>, <<2532, 2533>>, <<2559, 2560>>,
     <<2564, 2564>>, <<2571, 2574>>, <<2577, 2578>>, <<2601, 2601>>,
     <<2609, 2609>>, <<2612, 2612>>, <<2615, 2615>>, <<2618, 2619>>,
     <<2621, 2621>>, <<2627, 2630>>, <<2633, 2634>>, <<2638, 2640>>,
     <<2642, 2648>>, <<2653, 2653>>, <<2655, 2661>>, <<2679, 2688>>,
     <<2692, 2692>>, <<2702, 2702>>, <<2706, 2706>>, <<2729, 2729>>,
     <<2737, 2737>>, <<2740, 2740>>, <<2746, 2747>>, <<2758, 2758>>,
     <<2762, 2762>>, <<2766, 2767>>, <<2769, 2783>>, <<2788, 2789>>,
     <<2802, 2808>>, <<2816, 2816>>, <<2820, 2820>>, <<2829, 2830>>,
     <<2833, 2834>>, <<2857, 2857>>, <<2865, 2865>>, <<2868, 2868>>,
     <<2874, 2875>>, <<2885, 2886>>, <<2889, 2890>>, <<2894, 2900>>,
     <<2904, 2907>>, <<2910, 2910>>, <<2916, 2917>>, <<2936, 2945>>,
     <<2948, 2948>>, <<2955, 2957>>, <<2961, 2961>>, <<2966, 2968>>,
     <<2971, 2971>>, <<2973, 2973>>, <<2976, 2978>>, <<2981, 2983>>,
     <<2987, 2989>>, <<3002, 3005>>, <<3011, 3013>>, <<3017, 3017>>,
     <<3022, 3023>>, <<3025, 3030>>, <<3032, 3045>>, <<3067, 3071>>,
     <<3085, 3085>>, <<3089, 3089>>, <<3113, 3113>>, <<3130, 3131>>,
     <<3141, 3141>>, <<3145, 3145>>, <<3150, 3156>>, <<3159, 3159>>,
     <<3163, 3164>>, <<3166, 3167>>, <<3172, 3173>>, <<3184, 3190>>,
     <<3213, 3213>>, <<3217, 3217>>, <<3241, 3241>>, <<3252, 3252>>,
     <<3258, 3259>>, <<3269, 3269>>, <<3273, 3273>>, <<3278, 3284>>,
     <<3287, 3292>>, <<3295, 3295>>, <<3300, 3301>>, <<3312, 3312>>,
     <<3315, 3327>>, <<3341, 3341>>, <<3345, 3345>>, <<3397, 3397>>,
     <<3401, 3401>>, <<3408, 3411>>, <<3428, 3429>>, <<3456, 3456>>,
     <<3460, 3460>>, <<3479, 3481>>, <<3506, 3506>>, <<3516, 3516>>,
     <<3518, 3519>>, <<3527, 3529>>, <<3531, 3534>>, <<3541, 3541>>,
     <<3543, 3543>>, <<3552, 3557>>, <<3568, 3569>>, <<3573, 3584>>,
     <<3643, 3646>>, <<3676, 3712>>, <<3715, 3715>>, <<3717, 3717>>,
     <<3723, 3723>>, <<3748, 3748>>, <<3750, 3750>>, <<3774, 3775>>,
     <<3781, 3781>>, <<3783, 3783>>, <<3790, 3791>>, <<3802, 3803>>,
     <<3808, 3839>>, <<3912, 3912>>, <<3949, 3952>>, <<3992, 3992>>,
     <<4029, 4029>>, <<4045, 4045>>, <<4059, 4095>>, <<4294, 4294>>,
     <<4296, 4300>>, <<4302, 4303>>, <<4681, 4681>>, <<4686, 4687>>,
     <<4695, 4695>>, <<4697, 4697>>, <<4702, 4703>>, <<4745, 4745>>,
     <<4750, 4751>>, <<4785, 4785>>, <<4790, 4791>>, <<4799, 4799>>,
     <<4801, 4801>>, <<4806, 4807>>, <<4823, 4823>>, <<4881, 4881>>,
     <<4886, 4887>>, <<4955, 4956>>, <<4989, 4991>>, <<5018, 5023>>,
     <<5110, 5111>>, <<5118, 5119>>, <<5760, 5760>>, <<5789, 5791>>,
     <<5881, 5887>>, <<5910, 5918>>, <<5943, 5951>>, <<5972, 5983>>,
     <<5997, 5997>>, <<6001, 6001>>, <<6004, 6015>>, <<6110, 6111>>,
     <<6122, 6127>>, <<6138, 6143>>, <<6158, 6158>>, <<6170, 6175>>,
     <<6265, 6271>>, <<6315, 6319>>, <<6390, 6399>>, <<6431, 6431>>,
     <<6444, 6447>>, <<6460, 6463>>, <<6465, 6467>>, <<6510, 6511>>,
     <<6517, 6527>>, <<6572, 6575>>, <<6602, 6607>>, <<6619, 6621>>,
     <<6684, 6685>>, <<6751, 6751>>, <<6781, 6782>>, <<6794, 6799>>,
     <<6810, 6815>>, <<6830, 6831>>, <<6863, 6911>>, <<6989, 6991>>,
     <<7039, 7039>>, <<7156, 7163>>, <<7224, 7226>>, <<7242, 7244>>,
     <<7305, 7311>>, <<7355, 7356>>, <<7368, 7375>>, <<7419, 7423>>,
     <<7958, 7959>>, <<7966, 7967>>, <<8006, 8007>>, <<8014, 8015>>,
     <<8024, 8024>>, <<8026, 8026>>, <<8028, 8028>>, <<8030, 8030>>,
     <<8062, 8063>>, <<8117, 8117>>, <<8133, 8133>>, <<8148, 8149>>,
     <<8156, 8156>>, <<8176, 8177>>, <<8181, 8181>>, <<8191, 8207>>,
     <<8232, 8239>>, <<8287, 8303>>, <<8306, 8307>>, <<8335, 8335>>,
     <<8349, 8351>>, <<8385, 8399>>, <<8433, 8447>>, <<8588, 8591>>,
     <<9255, 9279>>, <<9291, 9311>>, <<11124, 11125>>, <<11158, 11158>>,
     <<11508, 11512>>, <<11558, 11558>>, <<11560, 11564>>, <<11566, 11567>>,
     <<11624, 11630>>, <<11633, 11646>>, <<11671, 11679>>, <<11687, 11687>>,
     <<11695, 11695>>, <<11703, 11703>>, <<11711, 11711>>, <<11719, 11719>>,
     <<11727, 11727>>, <<11735, 11735>>, <<11743, 11743>>, <<11870, 11903>>,
     <<11930, 11930>>, <<12020, 12031>>, <<12246, 12271>>, <<12284, 12288>>,
     <<12352, 12352>>, <<12439, 12440>>, <<12544, 12548>>, <<12592, 12592>>,
     <<12687, 12687>>, <<12772, 12783>>, <<12831, 12831>>, <<42125, 42127>>,
     <<42183, 42191>>, <<42540, 42559>>, <<42744, 42751>>, <<42955, 42959>>,
     <<42962, 42962>>, <<42964, 42964>>, <<42970, 42993>>, <<43053, 43055>>,
     <<43066, 43071>>, <<43128, 43135>>, <<43206, 43213>>, <<43226, 43231>>,
     <<43348, 43358>>, <<43389, 43391>>, <<43470, 43470>>, <<43482, 43485>>,
     <<43519, 43519>>, <<43575, 43583>>, <<43598, 43599>>, <<43610, 43611>>,
     <<43715, 43738>>, <<43767, 43776>>, <<43783, 43784>>, <<43791, 43792>>,
     <<43799, 43807>>, <<43815, 43815>>, <<43823, 43823>>, <<43884, 43887>>,
     <<44014, 44015>>, <<44026, 44031>>, <<55204, 55215>>, <<55239, 55242>>,
     <<55292, 63743>>, <<64110, 64111>>, <<64218, 64255>>, <<64263, 64274>>,
     <<64280, 64284>>, <<64311, 64311>>, <<64317, 64317>>, <<64319, 64319>>,
     <<64322, 64322>>, <<64325, 64325>>, <<64451, 64466>>, <<64912, 64913>>,
     <<64968, 64974>>, <<64976, 65007>>, <<65050, 65055>>, <<65107, 65107>>,
     <<65127, 65127>>, <<65132, 65135>>, <<65141, 65141>>, <<65277, 65280>>,
     <<65471, 65473>>, <<65480, 65481>>, <<65488, 65489>>, <<65496, 65497>>,
     <<65501, 65503>>, <<65511, 65511>>, <<65519, 65531>>, <<65534, 65535>>,
     <<65548, 65548>>, <<65575, 65575>>, <<65595, 65595>>, <<65598, 65598>>,
     <<65614, 65615>>, <<65630, 65663>>, <<65787, 65791>>, <<65795, 65798>>,
     <<65844, 65846>>, <<65935, 65935>>, <<65949, 65951>>, <<65953, 65999>>,
     <<66046, 66175>>, <<66205, 66207>>, <<66257, 66271>>, <<66300, 66303>>,
     <<66340, 66348>>, <<66379, 66383>>, <<66427, 66431>>, <<66462, 66462>>,
     <<66500, 66503>>, <<66518, 66559>>, <<66718, 66719>>, <<66730, 66735>>,
     <<66772, 66775>>, <<66812, 66815>>, <<66856, 66863>>, <<66916, 66926>>,
     <<66939, 66939>>, <<66955, 66955>>, <<66963, 66963>>, <<66966, 66966>>,
     <<66978, 66978>>, <<66994, 66994>>, <<67002, 67002>>, <<67005, 67071>>,
     <<67383, 67391>>, <<67414, 67423>>, <<67432, 67455>>, <<67462, 67462>>,
     <<67505, 67505>>, <<67515, 67583>>, <<67590, 67591>>, <<67593, 67593>>,
     <<67638, 67638>>, <<67641, 67643>>, <<67645, 67646>>, <<67670, 67670>>,
     <<67743, 67750>>, <<67760, 67807>>, <<67827, 67827>>, <<67830, 67834>>,
     <<67868, 67870>>, <<67898, 67902>>, <<67904, 67967>>, <<68024, 68027>>,
     <<68048, 68049>>, <<68100, 68100>>, <<68103, 68107>>, <<68116, 68116>>,
     <<68120, 68120>>, <<68150, 68151>>, <<68155, 68158>>, <<68169, 68175>>,
     <<68185, 68191>>, <<68256, 68287>>, <<68327, 68330>>, <<68343, 68351>>,
     <<68406, 68408>>, <<68438, 68439>>, <<68467, 68471>>, <<68498, 68504>>,
     <<68509, 68520>>, <<68528, 68607>>, <<68681, 68735>>, <<68787, 68799>>,
     <<68851, 68857>>, <<68904, 68911>>, <<68922, 69215>>, <<69247, 69247>>,
     <<69290, 69290>>, <<69294, 69295>>, <<69298, 69375>>, <<69416, 69423>>,
     <<69466, 69487>>, <<69514, 69551>>, <<69580, 69599>>, <<69623, 69631>>,
     <<69710, 69713>>, <<69750, 69758>>, <<69821, 69821>>, <<69827, 69839>>,
     <<69865, 69871>>, <<69882, 69887>>, <<69941, 69941>>, <<69960, 69967>>,
     <<70007, 70015>>, <<70112, 70112>>, <<70133, 70143>>, <<70162, 70162>>,
     <<70207, 70271>>, <<70279, 70279>>, <<70281, 70281>>, <<70286, 70286>>,
     <<70302, 70302>>, <<70314, 70319>>, <<70379, 70383>>, <<70394, 70399>>,
     <<70404, 70404>>, <<70413, 70414>>, <<70417, 70418>>, <<70441, 70441>>,
     <<70449, 70449>>, <<70452, 70452>>, <<70458, 70458>>, <<70469, 70470>>,
     <<70473, 70474>>, <<70478, 70479>>, <<70481, 70486>>, <<70488, 70492>>,
     <<70500, 70501>>, <<70509, 70511>>, <<70517, 70655>>, <<70748, 70748>>,
     <<70754, 70783>>, <<70856, 70863>>, <<70874, 71039>>, <<71094, 71095>>,
     <<71134, 71167>>, <<71237, 71247>>, <<71258, 71263>>, <<71277, 71295>>,
     <<71354, 71359>>, <<71370, 71423>>, <<71451, 71452>>, <<71468, 71471>>,
     <<71495, 71679>>, <<71740, 71839>>, <<71923, 71934>>, <<71943, 71944>>,
     <<71946, 71947>>, <<71956, 71956>>, <<71959, 71959>>, <<71990, 71990>>,
     <<71993, 71994>>, <<72007, 72015>>, <<72026, 72095>>, <<72104, 72105>>,
     <<72152, 72153>>, <<72165, 72191>>, <<72264, 72271>>, <<72355, 72367>>,
     <<72441, 72703>>, <<72713, 72713>>, <<72759, 72759>>, <<72774, 72783>>,
     <<72813, 72815>>, <<72848, 72849>>, <<72872, 72872>>, <<72887, 72959>>,
     <<72967, 72967>>, <<72970, 72970>>, <<73015, 73017>>, <<73019, 73019>>,
     <<73022, 73022>>, <<73032, 73039>>, <<73050, 73055>>, <<73062, 73062>>,
     <<73065, 73065>>, <<73103, 73103>>, <<73106, 73106>>, <<73113, 73119>>,
     <<73130, 73439>>, <<73465, 73647>>, <<73649, 73663>>, <<73714, 73726>>,
     <<74650, 74751>>, <<74863, 74863>>, <<74869, 74879>>, <<75076, 77711>>,
     <<77811, 77823>>, <<78895, 82943>>, <<83527, 92159>>, <<92729, 92735>>,
     <<92767, 92767>>, <<92778, 92781>>, <<92863, 92863>>, <<92874, 92879>>,
     <<92910, 92911>>, <<92918, 92927>>, <<92998, 93007>>, <<93018, 93018>>,
     <<93026, 93026>>, <<93048, 93052>>, <<93072, 93759>>, <<93851, 93951>>,
     <<94027, 94030>>, <<94088, 94094>>, <<94112, 94175>>, <<94181, 94191>>,
     <<94194, 94207>>, <<100344, 100351>>, <<101590, 101631>>,
     <<101641, 110575>>, <<110580, 110580>>, <<110588, 110588>>,
     <<110591, 110591>>, <<110883, 110927>>, <<110931, 110947>>,
     <<110952, 110959>>, <<111356, 113663>>, <<113771, 113775>>,
     <<113789, 113791>>, <<113801, 113807>>, <<113818, 113819>>,
     <<113824, 118527>>, <<118574, 118575>>, <<118599, 118607>>,
     <<118724, 118783>>, <<119030, 119039>>, <<119079, 119080>>,
     <<119155, 119162>>, <<119275, 119295>>, <<119366, 119519>>,
     <<119540, 119551>>, <<119639, 119647>>, <<119673, 119807>>,
     <<119893, 119893>>, <<119965, 119965>>, <<119968, 119969>>,
     <<119971, 119972>>, <<119975, 119976>>, <<119981, 119981>>,
     <<119994, 119994>>, <<119996, 119996>>, <<120004, 120004>>,
     <<120070, 120070>>, <<120075, 120076>>, <<120085, 120085>>,
     <<120093, 120093>>, <<120122, 120122>>, <<120127, 120127>>,
     <<120133, 120133>>, <<120135, 120137>>, <<120145, 120145>>,
     <<120486, 120487>>, <<120780, 120781>>, <<121484, 121498>>,
     <<121504, 121504>>, <<121520, 122623>>, <<122655, 122879>>,
     <<122887, 122887>>, <<122905, 122906>>, <<122914, 122914>>,
     <<122917, 122917>>, <<122923, 123135>>, <<123181, 123183>>,
     <<123198, 123199>>, <<123210, 123213>>, <<123216, 123535>>,
     <<123567, 123583>>, <<123642, 123646>>, <<123648, 124895>>,
     <<124903, 124903>>, <<124908, 124908>>, <<124911, 124911>>,
     <<124927, 124927>>, <<125125, 125126>>, <<125143, 125183>>,
     <<125260, 125263>>, <<125274, 125277>>, <<125280, 126064>>,
     <<126133, 126208>>, <<126270, 126463>>, <<126468, 126468>>,
     <<126496, 126496>>, <<126499, 126499>>, <<126501, 126502>>,
     <<126504, 126504>>, <<126515, 126515>>, <<126520, 126520>>,
     <<126522, 126522>>, <<126524, 126529>>, <<126531, 126534>>,
     <<126536, 126536>>, <<126538, 126538>>, <<126540, 126540>>,
     <<126544, 126544>>, <<126547, 126547>>, <<126549, 126550>>,
     <<126552, 126552>>, <<126554, 126554>>, <<126556, 126556>>,
     <<126558, 126558>>, <<126560, 126560>>, <<126563, 126563>>,
     <<126565, 126566>>, <<126571, 126571>>, <<126579, 126579>>,
     <<126584, 126584>>, <<126589, 126589>>, <<126591, 126591>>,
     <<126602, 126602>>, <<126620, 126624>>, <<126628, 126628>>,
     <<126634, 126634>>, <<126652, 126703>>, <<126706, 126975>>,
     <<127020, 127023>>, <<127124, 127135>>, <<127151, 127152>>,
     <<127168, 127168>>, <<127184, 127184>>, <<127222, 127231>>,
     <<127406, 127461>>, <<127491, 127503>>, <<127548, 127551>>,
     <<127561, 127567>>, <<127570, 127583>>, <<127590, 127743>>,
     <<128728, 128732>>, <<128749, 128751>>, <<128765, 128767>>,
     <<128884, 128895>>, <<128985, 128991>>, <<129004, 129007>>,
     <<129009, 129023>>, <<129036, 129039>>, <<129096, 129103>>,
     <<129114, 129119>>, <<129160, 129167>>, <<129198, 129199>>,
     <<129202, 129279>>, <<129620, 129631>>, <<129646, 129647>>,
     <<129653, 129655>>, <<129661, 129663>>, <<129671, 129679>>,
     <<129709, 129711>>, <<129723, 129727>>, <<129734, 129743>>,
     <<129754, 129759>>, <<129768, 129775>>, <<129783, 129791>>,
     <<129939, 129939>>, <<129995, 130031>>, <<130042, 131071>>,
     <<173792, 173823>>, <<177977, 177983>>, <<178206, 178207>>,
     <<183970, 183983>>, <<191457, 194559>>, <<195102, 196607>>,
     <<201547, 917759>>, <<918000, 1114111>> >>
\* below U+007F the printable characters are those from the space on
IsPrintable(c) ==
  IF c < 127 THEN c >= 32
  ELSE ~\E i \in 1..Len(NonPrintable) :
          NonPrintable[i][1] <= c /\ c <= NonPrintable[i][2]

\* one character of a str as repr() writes it between the given quotes: the
\* quote and the backslash behind a backslash, \t, \n and \r by name, any
\* other character that is not printable as \xNN, \uNNNN or \UNNNNNNNN
EscapedChar(c, quote) ==
  CASE c = quote \/ c = Backslash -> <<Backslash, c>>
    [] c = 9 -> <<Backslash, Ord("t")>>
    [] c = 10 -> <<Backslash, Ord("n")>>
    [] c = 13 -> <<Backslash, Ord("r")>>
    [] OTHER ->
         IF IsPrintable(c) THEN <<c>>
         ELSE IF c <= 255 THEN <<Backslash, Ord("x")>> \o Hex(c, 2)
         ELSE IF c <= 65535 THEN <<Backslash, Ord("u")>> \o Hex(c, 4)
         ELSE <<Backslash, Ord("U")>> \o Hex(c, 8)

RECURSIVE EscapedText(_, _)
EscapedText(s, quote) ==
  IF s = <<>> THEN <<>>
  ELSE EscapedChar(Head(s), quote) \o EscapedText(Tail(s), quote)

\* repr(x) of a str: between single quotes, between double quotes when the
\* text holds a single quote and no double quote; the quote in use, the
\* backslash and the characters that are not printable are escaped
Repr(x) ==
  LET has(c) == \E i \in 1..Len(x.s) : x.s[i] = c
      quote == IF has(SingleQuote) /\ ~has(DoubleQuote)
               THEN DoubleQuote ELSE SingleQuote
  IN <<quote>> \o EscapedText(x.s, quote) \o <<quote>>

RECURSIVE NatToStr(_)
NatToStr(n) ==
  IF n < 10 THEN Digits[n + 1] ELSE NatToStr(n \div 10) \o Digits[(n % 10) + 1]

(* ------------------------------- dicts -------------------------------- *)

\* d.get(k): the value, or None when the key is absent
Get(d, k) == IF k \in DOMAIN d THEN d[k] ELSE NoneV
\* v is None, for a value of any kind (a str and None have no common equality)
IsNone(v) == ToString(v) = ToString(NoneV)
\* the truth value of a str or None: false for None and for the empty str
Truthy(v) == ~IsNone(v) /\ v # ""
\* d[k] = v
Put(d, k, v) == [x \in (DOMAIN d) \cup {k} |-> IF x = k THEN v ELSE d[x]]
\* the dict d with the key k removed
Without(d, k) == [x \in (DOMAIN d) \ {k} |-> d[x]]

(* ------------------------- bytes.decode('utf8') ----------------------- *)

IsCont(b) == b >= 128 /\ b <= 191

\* length of the UTF-8 sequence a lead byte announces, 0 for an invalid lead
Utf8Len(b) ==
  CASE b <= 127 -> 1
    [] b >= 194 /\ b <= 223 -> 2
    [] b >= 224 /\ b <= 239 -> 3
    [] b >= 240 /\ b <= 244 -> 4
    [] OTHER -> 0

\* the second byte's range depends on the lead byte (no overlong forms, no
\* surrogates, nothing above U+10FFFF)
SecondOk(b, c) ==
  CASE b = 224 -> c >= 160 /\ c <= 191
    [] b = 237 -> c >= 128 /\ c <= 159
    [] b = 240 -> c >= 144 /\ c <= 191
    [] b = 244 -> c >= 128 /\ c <= 143
    [] OTHER -> IsCont(c)

Utf8Valid(bs, n) ==
  /\ n > 0
  /\ Len(bs) >= n
  /\ n >= 2 => SecondOk(bs[1], bs[2])
  /\ \A i \in 3..n : IsCont(bs[i])

CodePoint(bs, n) ==
  CASE n = 1 -> bs[1]
    [] n = 2 -> (bs[1] - 192) * 64 + (bs[2] - 128)
    [] n = 3 -> (bs[1] - 224) * 4096 + (bs[2] - 128) * 64 + (bs[3] - 128)
    [] n = 4 -> (bs[1] - 240) * 262144 + (bs[2] - 128) * 4096
                  + (bs[3] - 128) * 64 + (bs[4] - 128)

\* bs.decode('utf8'), strict: the code points, or UnicodeDecodeError
RECURSIVE Utf8Decode(_)
Utf8Decode(bs) ==
  IF bs = <<>> THEN [raised |-> "", v |-> <<>>]
  ELSE LET n == Utf8Len(Head(bs)) IN
    IF ~Utf8Valid(bs, n) THEN [raised |-> "UnicodeDecodeError", v |-> <<>>]
    ELSE LET rest == Utf8Decode(SubSeq(bs, n + 1, Len(bs))) IN
      IF rest.raised # "" THEN rest
      ELSE [raised |-> "", v |-> <<CodePoint(bs, n)>> \o rest.v]

(* ------------------------------ helpers ------------------------------- *)

\* the list comprehension of get_header_from_scope over the header pairs: the
\* key is decoded for every pair, the value only for a pair whose key matches
RECURSIVE HeaderValues(_, _)
HeaderValues(headers, header_name) ==
  IF headers = <<>> THEN [raised |-> "", v |-> <<>>]
  ELSE LET key == Utf8Decode(Head(headers)[1]) IN
    IF key.raised # "" THEN [raised |-> key.raised, v |-> <<>>]
    ELSE LET value == IF key.v = header_name
                      THEN Utf8Decode(Head(headers)[2])
                      ELSE [raised |-> "", v |-> <<>>]
         IN IF value.raised # "" THEN [raised |-> value.raised, v |-> <<>>]
            ELSE LET rest == HeaderValues(Tail(headers), header_name) IN
              IF rest.raised # "" THEN rest
              ELSE [raised |-> "",
                    v |-> (IF key.v = header_name THEN <<value.v>> ELSE <<>>)
                            \o rest.v]

\* scope.get('headers') is None when the scope has no headers, and iterating
\* None raises TypeError
get_header_from_scope(scope, header_name) ==
  IF "headers" \notin DOMAIN scope
  THEN [raised |-> "TypeError", v |-> <<>>]
  ELSE HeaderValues(scope["headers"], header_name)

get_default_span_name(scope) ==
  IF "path" \in DOMAIN scope THEN scope["path"] ELSE "/"

\* the dict literal is built key by key: map(str, None) raises TypeError when
\* the scope has no server
collect_request_attributes(scope) ==
  IF "server" \notin DOMAIN scope
  THEN [raised |-> "TypeError", v |-> <<>>]
  ELSE LET server == scope["server"]
           result == [x \in {"component", "http.method", "http.server_name",
                             "http.scheme", "http.host", "http.port"} |->
                        CASE x = "component" -> Get(scope, "type")
                          [] x = "http.method" -> Get(scope, "method")
                          [] x = "http.server_name" ->
                               server[1] \o ":" \o NatToStr(server[2])
                          [] x = "http.scheme" -> Get(scope, "scheme")
                          [] x = "http.host" -> server[1]
                          [] x = "http.port" -> server[2]]
           target == Get(scope, "path")
           withTarget == IF ~IsNone(target)
                         THEN Put(result, "http.target", target)
                         ELSE result
           flavor == Get(scope, "http_version")
           withFlavor == IF Truthy(flavor)
                         THEN Put(withTarget, "http.flavor", flavor)
                         ELSE withTarget
       IN [raised |-> "", v |-> withFlavor]

\* opentelemetry.ext.wsgi.http_status_to_canonical_code, by HTTP range
http_status_to_canonical_code(code) ==
  CASE code < 100 -> "UNKNOWN"
    [] code >= 100 /\ code <= 399 -> "OK"
    [] code >= 400 /\ code <= 499 -> "CLIENT_ERROR"
    [] code >= 500 /\ code <= 599 -> "SERVER_ERROR"
    [] OTHER -> "UNKNOWN"

Status(canonical_code, description) ==
  [canonical_code |-> canonical_code, description |-> description]

(* ------------------------------- tracer ------------------------------- *)

NoParent == [k |-> "none"]
RemoteParent(ctx) == [k |-> "remote", ctx |-> ctx]
SpanParent(id) == [k |-> "span", id |-> id]

\* tracer.start_span(name, parent, kind=SERVER, attributes=...): a new span,
\* started at time t, without a status, not ended; late counts the updates
\* that reach the span after its end
start_span(name, parent, attributes, t) ==
  [name |-> name, parent |-> parent, kind |-> "SERVER",
   attributes |-> attributes, status |-> NoneV, ends |-> 0,
   start_time |-> t, end_time |-> 0, late |-> 0]

Touched(sp) == IF sp.ends > 0 THEN [sp EXCEPT !.late = @ + 1] ELSE sp

set_attribute(sp, key, value) ==
  [Touched(sp) EXCEPT !.attributes = Put(@, key, value)]
set_status(sp, status) == [Touched(sp) EXCEPT !.status = status]
update_name(sp, name) == [Touched(sp) EXCEPT !.name = name]
\* span.end() at time t: the first end stamps the end time
end(sp, t) ==
  [sp EXCEPT !.ends = @ + 1, !.end_time = IF sp.ends = 0 THEN t ELSE @]

\* "traceparent", the header the propagation codec asks the getter for
TraceParent == <<116, 114, 97, 99, 101, 112, 97, 114, 101, 110, 116>>

\* propagators.extract(get_header_from_scope, scope): the parent context of the
\* header when there is one, no parent otherwise; a failure of the getter
\* propagates
extract(scope) ==
  LET h == get_header_from_scope(scope, TraceParent) IN
    IF h.raised # "" THEN [raised |-> h.raised, v |-> NoParent]
    ELSE [raised |-> "",
          v |-> IF h.v = <<>> THEN NoParent ELSE RemoteParent(h.v[1])]

(* ------------------------ message-level recording --------------------- *)

NonIntegerPrefix ==
  Text(<<"N", "o", "n", "-", "i", "n", "t", "e", "g", "e", "r", " ",
         "H", "T", "T", "P", " ", "s", "t", "a", "t", "u", "s", ":", " ">>)

Ok(sp) == [exc |-> NoExc, span |-> sp]
Raise(sp, e) == [exc |-> e, span |-> sp]

\* mutant: the message of the unknown status leaves the raw value out
response_start_status_bare_message(sp, payload) ==
  IF "status" \notin DOMAIN payload
  THEN Raise(sp, Exc("KeyError", "payload['status']"))
  ELSE LET status_code == PyInt(payload["status"]) IN
    CASE status_code.raised = "ValueError" ->
           Ok(set_status(sp, Status("UNKNOWN", StrV(NonIntegerPrefix))))
      [] status_code.raised = "" ->
           Ok(set_status(set_attribute(sp, "http.status_code", status_code.v),
                Status(http_status_to_canonical_code(status_code.v), NoneV)))
      [] OTHER -> Raise(sp, Exc(status_code.raised, "int(status_code)"))
\* wrapped_send, the status of an http.response.start message
response_start_status(sp, payload) ==
  IF "status" \notin DOMAIN payload
  THEN Raise(sp, Exc("KeyError", "payload['status']"))
  ELSE LET status_code == PyInt(payload["status"]) IN
    CASE status_code.raised = "ValueError" ->
           Ok(set_status(sp, Status("UNKNOWN",
                StrV(NonIntegerPrefix \o Repr(payload["status"])))))
      [] status_code.raised = "" ->
           Ok(set_status(set_attribute(sp, "http.status_code", status_code.v),
                Status(http_status_to_canonical_code(status_code.v), NoneV)))
      [] OTHER -> Raise(sp, Exc(status_code.raised, "int(status_code)"))

\* mutant: the text of the frame is not recorded
websocket_status_without_text(sp, payload) ==
  LET marked == set_status(set_attribute(sp, "http.status_code", 200),
                           Status(http_status_to_canonical_code(200), NoneV))
  IN IF "text" \notin DOMAIN payload
     THEN Raise(marked, Exc("KeyError", "payload['text']"))
     ELSE Ok(marked)
\* a websocket frame, received or sent: status 200 and the text of the frame
websocket_status(sp, payload) ==
  LET marked == set_status(set_attribute(sp, "http.status_code", 200),
                           Status(http_status_to_canonical_code(200), NoneV))
  IN IF "text" \notin DOMAIN payload
     THEN Raise(marked, Exc("KeyError", "payload['text']"))
     ELSE Ok(set_attribute(marked, "http.status_text", payload["text"]))

\* mutant: the span is tagged and keeps the name it was started with
name_and_tag_not_renamed(sp, span_name, payload) ==
  set_attribute(sp, "type", payload["type"])
\* the renaming and tagging both wrappers end with
name_and_tag(sp, span_name, payload) ==
  set_attribute(update_name(sp, span_name \o " (" \o payload["type"] \o ")"),
                "type", payload["type"])

\* mutant: the span is not renamed and tagged before the message is forwarded
send_record_untagged(sp, span_name, payload) ==
  IF "type" \notin DOMAIN payload
  THEN Raise(sp, Exc("KeyError", "payload['type']"))
  ELSE CASE payload["type"] = "http.response.start" ->
              response_start_status(sp, payload)
         [] payload["type"] = "websocket.send" ->
              websocket_status(sp, payload)
         [] OTHER -> Ok(sp)
\* wrapped_send from the start of its span up to the call of send
send_record(sp, span_name, payload) ==
  IF "type" \notin DOMAIN payload
  THEN Raise(sp, Exc("KeyError", "payload['type']"))
  ELSE LET recorded ==
             CASE payload["type"] = "http.response.start" ->
                    response_start_status(sp, payload)
               [] payload["type"] = "websocket.send" ->
                    websocket_status(sp, payload)
               [] OTHER -> Ok(sp)
       IN IF recorded.exc # NoExc THEN recorded
          ELSE Ok(name_and_tag(recorded.span, span_name, payload))

\* mutant: every received message is marked with the status code 200
receive_record_all_marked(sp, span_name, payload) ==
  IF "type" \notin DOMAIN payload
  THEN Raise(sp, Exc("KeyError", "payload['type']"))
  ELSE LET recorded ==
             IF payload["type"] = "websocket.receive"
             THEN websocket_status(sp, payload)
             ELSE Ok(set_attribute(sp, "http.status_code", 200))
       IN IF recorded.exc # NoExc THEN recorded
          ELSE Ok(name_and_tag(recorded.span, span_name, payload))
\* wrapped_receive from the return of receive up to the end of its span
receive_record(sp, span_name, payload) ==
  IF "type" \notin DOMAIN payload
  THEN Raise(sp, Exc("KeyError", "payload['type']"))
  ELSE LET recorded ==
             IF payload["type"] = "websocket.receive"
             THEN websocket_status(sp, payload)
             ELSE Ok(sp)
       IN IF recorded.exc # NoExc THEN recorded
          ELSE Ok(name_and_tag(recorded.span, span_name, payload))

(* ------------------------------- inputs ------------------------------- *)

\* the scope of setup_testing_defaults
DefaultScope ==
  [client |-> <<"127.0.0.1", 32767>>, headers |-> <<>>, http_version |-> "1.0",
   method |-> "GET", path |-> "/", query_string |-> <<>>, scheme |-> "http",
   server |-> <<"127.0.0.1", 80>>, type |-> "http"]

\* header pairs (name bytes, value bytes): b"traceparent": b"00", b"\xc3\xa9": b"h"
TracedHeaders == << <<TraceParent, <<48, 48>> >>, << <<195, 169>>, <<104>> >> >>
\* a header whose name is not valid UTF-8: b"\xff": b"h"
UndecodableHeaders == << << <<255>>, <<104>> >> >>

\* the scopes the transport may hand to the middleware
Scopes ==
  << DefaultScope,
     Without(Without([DefaultScope EXCEPT !.type = "websocket",
                                          !.headers = TracedHeaders],
                     "path"), "method"),
     Without(DefaultScope, "headers"),
     Without(DefaultScope, "server"),
     [DefaultScope EXCEPT !.headers = UndecodableHeaders] >>

\* the status '404'
NumericStatus == StrV(Text(<<"4", "0", "4">>))
\* the status 'abc'
WordStatus == StrV(Text(<<"a", "b", "c">>))
\* the status ' \t' U+06F2 '00\n': 200 between blanks, its first digit the
\* Extended Arabic-Indic digit two
PaddedStatus == StrV(<<32, 9, 1778, 48, 48, 10>>)
\* the status 'a', "'", U+0000, U+06DD, U+E0001: no integer, with a quote and
\* three characters that are not printable
UnprintableStatus == StrV(<<97, 39, 0, 1757, 917505>>)

\* raw values of the status field of http.response.start
Statuses ==
  << IntV(200), IntV(201), IntV(301), IntV(404), IntV(500),
     NumericStatus, PaddedStatus, WordStatus, UnprintableStatus, NoneV >>

\* messages the application may pass to send
SendMessages ==
  [i \in 1..Len(Statuses) |->
     [type |-> "http.response.start", status |-> Statuses[i]]]
  \o << [type |-> "http.response.start"],
        [type |-> "http.response.body", body |-> <<>>],
        [type |-> "websocket.send", text |-> "hello"],
        [type |-> "websocket.send", bytes |-> <<104>>],
        [body |-> <<>>] >>

\* messages the transport may deliver through receive
ReceiveMessages ==
  << [type |-> "http.request", body |-> <<>>],
     [type |-> "http.disconnect"],
     [type |-> "websocket.receive", text |-> "hello"],
     [type |-> "websocket.receive", bytes |-> <<104>>],
     [body |-> <<>>] >>

\* the inputs of the runs with several requests, one of each behaviour: a
\* scope that passes and one that fails, a sent message that is recorded and
\* one that makes its wrapper raise, a received message that is recorded
FewScopes == << DefaultScope, Without(DefaultScope, "headers") >>
FewSendMessages ==
  << [type |-> "http.response.start", status |-> IntV(200)],
     [type |-> "http.response.start", status |-> NoneV] >>
FewReceiveMessages == << [type |-> "http.request", body |-> <<>>] >>
FewFailures == {Exc("CancelledError", "receive"), Exc("CancelledError", "send")}

\* the inputs of one HTTP exchange: a scope with a path, one without and one
\* with an empty path and version and no client, the request body, the start
\* of the response and its body
ExchangeScopes ==
  << [DefaultScope EXCEPT !.path = "/x"],
     Without(DefaultScope, "path"),
     Without([DefaultScope EXCEPT !.path = "", !.http_version = ""], "client") >>
ExchangeReceiveMessages == << [type |-> "http.request", body |-> <<>>] >>
ExchangeSendMessages ==
  << [type |-> "http.response.start", status |-> IntV(200)],
     [type |-> "http.response.body", body |-> <<>>] >>

\* the task is cancelled while the wrapper is suspended in receive
ExchangeFailures == {Exc("CancelledError", "receive")}

\* what a failing underlying primitive raises into the wrapper suspended on it
PrimitiveFailures(kind) ==
  {Exc("TransportError", kind), Exc("CancelledError", kind)}

\* what the application raises of its own
AppFailures == {Exc("AppError", "application")}

\* the shapes of the application behind the middleware: called with the scope
\* and its result with the primitives, or called once with all three
AppShapes == {"double", "single"}

(* -------------------------------- state ------------------------------- *)

VARIABLES
  asgi,      \* self.asgi: the shape of the wrapped application
  pc,        \* per request: "idle", "app", "returned", "raised"
  scope,     \* per request: the scope __call__ was given
  app_scope, \* per request: the scope self.asgi was called with, None before
  root,      \* per request: the id of the root span, 0 before it is started
  ran,       \* per request: the handler was invoked with the wrapped primitives
  thrown,    \* per request: the exception that reached the except clause
  exc,       \* per request: the exception the caller of __call__ observes
  clock,     \* per request: the number of steps its task has taken
  spans,     \* the spans of the tracer, a span's id is its index
  inv        \* the invocations of wrapped_receive / wrapped_send, in call order

vars == <<asgi, pc, scope, app_scope, root, ran, thrown, exc, clock, spans, inv>>

Init ==
  /\ asgi \in AppShapes
  /\ pc = [r \in Requests |-> "idle"]
  /\ scope = [r \in Requests |-> DefaultScope]
  /\ app_scope = [r \in Requests |-> NoneV]
  /\ root = [r \in Requests |-> 0]
  /\ ran = [r \in Requests |-> FALSE]
  /\ thrown = [r \in Requests |-> NoExc]
  /\ exc = [r \in Requests |-> NoExc]
  /\ clock = [r \in Requests |-> 1]
  /\ spans = <<>>
  /\ inv = <<>>

span_name(r) == get_default_span_name(scope[r])

\* the time of the step the task of request r takes now; a run observes time
\* when its clock advances with every step (Tick), otherwise every event of
\* the run carries the same instant
now(r) == clock[r]
Tick(r) == clock' = [clock EXCEPT ![r] = @ + 1]

\* mutant: the root span is left open on a normal return
normal_exit_left_open(sp, t) == sp
\* the end of the with block on a normal return: span.end()
normal_exit(sp, t) == end(sp, t)

\* mutant: the except clause re-raises without ending the root span
except_clause_left_open(sp, e, t) == [span |-> sp, exc |-> e]
\* the except clause of __call__: end the root span, re-raise
except_clause(sp, e, t) == [span |-> end(sp, t), exc |-> e]

\* mutant: the parent is the span the tracer started last
child_parent_latest(r) == SpanParent(Len(spans))
\* the parent handed to start_span by both wrappers: the root span of the call
child_parent(r) == SpanParent(root[r])

\* mutant: the span of the request's first invocation is used again
start_child_reused(r, name, t) ==
  IF \E i \in 1..Len(inv) : inv[i].req = r
  THEN [spans |-> spans,
        id |-> inv[CHOOSE i \in 1..Len(inv) : inv[i].req = r].span]
  ELSE [spans |-> Append(spans, start_span(name, child_parent(r), <<>>, t)),
        id |-> Len(spans) + 1]
\* every invocation starts a span of its own
start_child(r, name, t) ==
  [spans |-> Append(spans, start_span(name, child_parent(r), <<>>, t)),
   id |-> Len(spans) + 1]

\* mutant: a wrapper returns without ending its span
wrapper_exit_left_open(sp, t) == sp
\* mutant: the span is ended by the with block and again by the wrapper
wrapper_exit_twice(sp, t) == end(end(sp, t), t)
\* the last statement of both wrappers before they return: span.end()
wrapper_exit(sp, t) == end(sp, t)

\* the scope self.asgi is called with: the one __call__ was given
asgi_scope(sc) == sc

\* mutant: send is handed a message rebuilt from the type alone
forwarded_message_type_only(payload) == [k \in {"type"} |-> payload["type"]]
\* the message wrapped_send hands to send
forwarded_message(payload) == payload

\* the message wrapped_receive returns to the application
returned_message(payload) == payload

\* __call__ up to the first suspension of the application
Call(r, sc) ==
  /\ pc[r] = "idle"
  /\ \A q \in Requests : q < r => pc[q] # "idle"  \* requests are numbered as they arrive
  /\ scope' = [scope EXCEPT ![r] = sc]
  /\ LET parent_span == extract(sc)
         attributes == collect_request_attributes(sc)
         span == start_span(get_default_span_name(sc), parent_span.v,
                            attributes.v, now(r))
         id == Len(spans) + 1
     IN IF parent_span.raised # "" \/ attributes.raised # ""
        THEN \* raised before start_span, outside the try
          /\ pc' = [pc EXCEPT ![r] = "raised"]
          /\ exc' = [exc EXCEPT ![r] =
                 IF parent_span.raised # ""
                 THEN Exc(parent_span.raised, "get_header_from_scope")
                 ELSE Exc(attributes.raised, "collect_request_attributes")]
          /\ UNCHANGED <<root, ran, thrown, spans, app_scope>>
        ELSE IF asgi = "single"
        THEN \* self.asgi(scope) lacks two arguments: TypeError inside the try
          LET e == Exc("TypeError", "self.asgi(scope)")
              out == except_clause(span, e, now(r))
          IN /\ spans' = Append(spans, out.span)
             /\ root' = [root EXCEPT ![r] = id]
             /\ thrown' = [thrown EXCEPT ![r] = e]
             /\ exc' = [exc EXCEPT ![r] = out.exc]
             /\ pc' = [pc EXCEPT ![r] = "raised"]
             /\ UNCHANGED <<ran, app_scope>>
        ELSE
          /\ spans' = Append(spans, span)
          /\ root' = [root EXCEPT ![r] = id]
          /\ ran' = [ran EXCEPT ![r] = TRUE]
          /\ app_scope' = [app_scope EXCEPT ![r] = asgi_scope(sc)]
          /\ pc' = [pc EXCEPT ![r] = "app"]
          /\ UNCHANGED <<thrown, exc>>
  /\ UNCHANGED <<asgi, inv>>

\* the application calls wrapped_receive, which suspends in receive(); cap is
\* the number of invocations the run stops at
AppReceive(r, cap) ==
  /\ pc[r] = "app"
  /\ Len(inv) < cap
  /\ IF IsNone(span_name(r))
     THEN \* None + " (unknown-receive)" raises before start_span: no span
       /\ inv' = Append(inv, [req |-> r, kind |-> "receive", span |-> 0,
                              pc |-> "raised", payload |-> NoneV, out |-> NoneV,
                              exc |-> Exc("TypeError", "span_name + suffix"),
                              forwarded |-> FALSE,
                              called |-> now(r), left |-> now(r)])
       /\ UNCHANGED spans
     ELSE
       LET c == start_child(r, span_name(r) \o " (unknown-receive)", now(r)) IN
         /\ spans' = c.spans
         /\ inv' = Append(inv, [req |-> r, kind |-> "receive", span |-> c.id,
                                pc |-> "awaiting", payload |-> NoneV,
                                out |-> NoneV, exc |-> NoExc, forwarded |-> FALSE,
                                called |-> now(r), left |-> 0])
  /\ UNCHANGED <<asgi, pc, scope, app_scope, root, ran, thrown, exc>>

\* receive() returns a message: the rest of wrapped_receive
ReceiveDone(i, payload) ==
  /\ i \in 1..Len(inv)
  /\ inv[i].kind = "receive"
  /\ inv[i].pc = "awaiting"
  /\ LET t == now(inv[i].req)
         out == receive_record(spans[inv[i].span], span_name(inv[i].req), payload)
     IN IF out.exc # NoExc
        THEN /\ spans' = [spans EXCEPT ![inv[i].span] = out.span]
             /\ inv' = [inv EXCEPT ![i].pc = "raised", ![i].exc = out.exc,
                                   ![i].payload = payload, ![i].left = t]
        ELSE /\ spans' = [spans EXCEPT ![inv[i].span] = wrapper_exit(out.span, t)]
             /\ inv' = [inv EXCEPT ![i].pc = "returned", ![i].payload = payload,
                                   ![i].out = returned_message(payload),
                                   ![i].left = t]
  /\ UNCHANGED <<asgi, pc, scope, app_scope, root, ran, thrown, exc>>

\* receive() or send() raises, or the task is cancelled while suspended in it:
\* use_span restores the current span and the exception leaves the wrapper
PrimitiveFail(i, e) ==
  /\ i \in 1..Len(inv)
  /\ inv[i].pc = "awaiting"
  /\ e \in PrimitiveFailures(inv[i].kind)
  /\ inv' = [inv EXCEPT ![i].pc = "raised", ![i].exc = e,
                        ![i].left = now(inv[i].req)]
  /\ UNCHANGED <<asgi, pc, scope, app_scope, root, ran, thrown, exc, spans>>

\* the application calls wrapped_send(payload), which suspends in send()
AppSend(r, payload, cap) ==
  /\ pc[r] = "app"
  /\ Len(inv) < cap
  /\ IF IsNone(span_name(r))
     THEN \* None + " (unknown-send)" raises before start_span: no span
       /\ inv' = Append(inv, [req |-> r, kind |-> "send", span |-> 0,
                              pc |-> "raised", payload |-> payload, out |-> NoneV,
                              exc |-> Exc("TypeError", "span_name + suffix"),
                              forwarded |-> FALSE,
                              called |-> now(r), left |-> now(r)])
       /\ UNCHANGED spans
     ELSE
       LET c == start_child(r, span_name(r) \o " (unknown-send)", now(r))
           out == send_record(c.spans[c.id], span_name(r), payload)
       IN /\ spans' = [c.spans EXCEPT ![c.id] = out.span]
          /\ inv' = Append(inv, [req |-> r, kind |-> "send", span |-> c.id,
                                 pc |-> IF out.exc # NoExc THEN "raised" ELSE "awaiting",
                                 payload |-> payload,
                                 out |-> IF out.exc # NoExc THEN NoneV
                                         ELSE forwarded_message(payload),
                                 exc |-> out.exc,
                                 forwarded |-> out.exc = NoExc,
                                 called |-> now(r),
                                 left |-> IF out.exc # NoExc THEN now(r) ELSE 0])
  /\ UNCHANGED <<asgi, pc, scope, app_scope, root, ran, thrown, exc>>

\* send() returns: the rest of wrapped_send
SendDone(i) ==
  /\ i \in 1..Len(inv)
  /\ inv[i].kind = "send"
  /\ inv[i].pc = "awaiting"
  /\ spans' = [spans EXCEPT ![inv[i].span] = wrapper_exit(@, now(inv[i].req))]
  /\ inv' = [inv EXCEPT ![i].pc = "returned", ![i].left = now(inv[i].req)]
  /\ UNCHANGED <<asgi, pc, scope, app_scope, root, ran, thrown, exc>>

\* the application returns: span.end() inside the with block
AppReturn(r) ==
  /\ pc[r] = "app"
  /\ spans' = [spans EXCEPT ![root[r]] = normal_exit(@, now(r))]
  /\ pc' = [pc EXCEPT ![r] = "returned"]
  /\ UNCHANGED <<asgi, scope, app_scope, root, ran, thrown, exc, inv>>

\* the application raises, an exception of its own or one a wrapper raised
\* into it: the except clause
AppRaise(r, e) ==
  /\ pc[r] = "app"
  /\ \/ e \in AppFailures
     \/ \E i \in 1..Len(inv) : inv[i].req = r /\ inv[i].pc = "raised" /\ inv[i].exc = e
  /\ LET out == except_clause(spans[root[r]], e, now(r)) IN
       /\ spans' = [spans EXCEPT ![root[r]] = out.span]
       /\ exc' = [exc EXCEPT ![r] = out.exc]
  /\ thrown' = [thrown EXCEPT ![r] = e]
  /\ pc' = [pc EXCEPT ![r] = "raised"]
  /\ UNCHANGED <<asgi, scope, app_scope, root, ran, inv>>

Exceptions ==
  AppFailures \cup PrimitiveFailures("receive") \cup PrimitiveFailures("send")
    \cup {Exc("KeyError", "payload['type']"), Exc("KeyError", "payload['status']"),
          Exc("KeyError", "payload['text']"), Exc("TypeError", "int(status_code)"),
          Exc("TypeError", "span_name + suffix")}

\* several requests in flight through one middleware
Next ==
  \/ \E r \in Requests : \E s \in 1..Len(FewScopes) :
       Call(r, FewScopes[s]) /\ UNCHANGED clock
  \/ \E r \in Requests : AppReceive(r, MaxInv) /\ UNCHANGED clock
  \/ \E i \in 1..MaxInv : \E m \in 1..Len(FewReceiveMessages) :
       ReceiveDone(i, FewReceiveMessages[m]) /\ UNCHANGED clock
  \/ \E i \in 1..MaxInv : \E e \in FewFailures :
       PrimitiveFail(i, e) /\ UNCHANGED clock
  \/ \E r \in Requests : \E m \in 1..Len(FewSendMessages) :
       AppSend(r, FewSendMessages[m], MaxInv) /\ UNCHANGED clock
  \/ \E i \in 1..MaxInv : SendDone(i) /\ UNCHANGED clock
  \/ \E r \in Requests : AppReturn(r) /\ UNCHANGED clock
  \/ \E r \in Requests : \E e \in Exceptions : AppRaise(r, e) /\ UNCHANGED clock

Spec == Init /\ [][Next]_vars

\* one request, every scope, message and failure
NextMessages ==
  \/ \E s \in 1..Len(Scopes) : Call(1, Scopes[s]) /\ UNCHANGED clock
  \/ AppReceive(1, MaxInv) /\ UNCHANGED clock
  \/ \E i \in 1..MaxInv : \E m \in 1..Len(ReceiveMessages) :
       ReceiveDone(i, ReceiveMessages[m]) /\ UNCHANGED clock
  \/ \E i \in 1..MaxInv : \E e \in Exceptions :
       PrimitiveFail(i, e) /\ UNCHANGED clock
  \/ \E m \in 1..Len(SendMessages) :
       AppSend(1, SendMessages[m], MaxInv) /\ UNCHANGED clock
  \/ \E i \in 1..MaxInv : SendDone(i) /\ UNCHANGED clock
  \/ AppReturn(1) /\ UNCHANGED clock
  \/ \E e \in Exceptions : AppRaise(1, e) /\ UNCHANGED clock

SpecMessages == Init /\ [][NextMessages]_vars

\* one HTTP request served in full and observed in time: the request body is
\* received, the response is started and its body sent, in any interleaving
\* the application chooses
NextExchange ==
  \/ \E s \in 1..Len(ExchangeScopes) : Call(1, ExchangeScopes[s]) /\ Tick(1)
  \/ AppReceive(1, MaxExchange) /\ Tick(1)
  \/ \E i \in 1..MaxExchange : \E m \in 1..Len(ExchangeReceiveMessages) :
       ReceiveDone(i, ExchangeReceiveMessages[m]) /\ Tick(1)
  \/ \E i \in 1..MaxExchange : \E e \in ExchangeFailures :
       PrimitiveFail(i, e) /\ Tick(1)
  \/ \E m \in 1..Len(ExchangeSendMessages) :
       AppSend(1, ExchangeSendMessages[m], MaxExchange) /\ Tick(1)
  \/ \E i \in 1..MaxExchange : SendDone(i) /\ Tick(1)
  \/ AppReturn(1) /\ Tick(1)
  \/ \E e \in Exceptions : AppRaise(1, e) /\ Tick(1)

SpecExchange == Init /\ [][NextExchange]_vars

(* ------------------------------- claims ------------------------------- *)

InvIds == 1..Len(inv)
SpanIds == 1..Len(spans)
Done(r) == pc[r] \in {"returned", "raised"}
\* the call got as far as invoking the application (line 142)
Reached(r) == ran[r] \/ thrown[r] # NoExc
RootSpans == {s \in SpanIds : spans[s].parent.k # "span"}
ChildrenOf(r) == {s \in SpanIds : spans[s].parent = SpanParent(root[r])}
InvOf(r) == {i \in InvIds : inv[i].req = r}

\* C1: every call of __call__ that invokes the application starts exactly one
\* root span and ends it exactly once, whether the application returns or
\* raises, and after any wrapped receive/send invocations
C1_OneRootEndedOnce ==
  /\ Cardinality(RootSpans) = Cardinality({r \in Requests : root[r] # 0})
  /\ \A r \in Requests :
       Reached(r) =>
         /\ root[r] \in RootSpans
         /\ \A q \in Requests : q # r => root[q] # root[r]
         /\ pc[r] = "app" => spans[root[r]].ends = 0
         /\ Done(r) => spans[root[r]].ends = 1

\* a request that made invocations and returned, another that raised
C1_Witness ==
  \E r, q \in Requests :
    /\ pc[r] = "returned" /\ InvOf(r) # {} /\ spans[root[r]].ends = 1
    /\ pc[q] = "raised" /\ thrown[q] \in AppFailures /\ spans[root[q]].ends = 1

\* C2: when the underlying receive or send fails, or the task is cancelled
\* while the wrapper is suspended on it, the wrapper's child span is ended
\* before the failure reaches the application
C2_ChildEndedOnPrimitiveFailure ==
  \A i \in InvIds :
    (inv[i].pc = "raised" /\ inv[i].exc \in PrimitiveFailures(inv[i].kind))
      => spans[inv[i].span].ends = 1

\* C3: when the application or a primitive raises, the root span is ended by
\* the time the caller observes the exception, and the caller observes the
\* very exception that was raised
C3_RootEndedThenSameException ==
  \A r \in Requests :
    (pc[r] = "raised" /\ thrown[r] # NoExc)
      => spans[root[r]].ends = 1 /\ exc[r] = thrown[r]

\* the failure of a primitive, raised through a wrapper and the application
C3_Witness ==
  \E r \in Requests : \E i \in InvOf(r) :
    /\ pc[r] = "raised"
    /\ inv[i].exc \in PrimitiveFailures(inv[i].kind)
    /\ thrown[r] = inv[i].exc
    /\ exc[r] = inv[i].exc

\* C4: when an exception leaves the application or the primitives, the root
\* span carries a status that reflects the failure when it is ended
C4_RootMarkedFailed ==
  \A r \in Requests :
    (pc[r] = "raised" /\ ran[r] /\ thrown[r] # NoExc)
      => /\ spans[root[r]].status # NoneV
         /\ spans[root[r]].status.canonical_code # "OK"

\* C5: with several requests in flight, every child span is parented to the
\* root span of the request whose wrapper started it, never to another
\* request's root span and never to a child span
C5_ChildOfOwnRoot ==
  /\ \A i \in InvIds : spans[inv[i].span].parent = SpanParent(root[inv[i].req])
  /\ \A s \in SpanIds :
       spans[s].parent.k = "span" => spans[s].parent.id \in RootSpans

\* both requests are in flight and the spans of the first request's wrappers
\* are started after the second request's root span
C5_Witness ==
  \E i, j \in InvIds :
    /\ inv[i].req = 1 /\ inv[j].req = 2
    /\ inv[i].span > root[2]
    /\ inv[j].span > inv[i].span

\* C6: a request has as many child spans as its application made wrapped
\* receive/send invocations, each invocation with a span of its own; a request
\* without invocations has its root span only
C6_OneChildPerInvocation ==
  /\ \A i, j \in InvIds : i # j => inv[i].span # inv[j].span
  /\ \A r \in Requests :
       root[r] # 0 => Cardinality(ChildrenOf(r)) = Cardinality(InvOf(r))
  /\ Len(spans) = Cardinality(RootSpans) + Len(inv)

\* one request with two invocations, the other finished without any
C6_Witness ==
  \E r, q \in Requests :
    /\ Cardinality(InvOf(r)) = 2 /\ Cardinality(ChildrenOf(r)) = 2
    /\ pc[q] = "returned" /\ InvOf(q) = {} /\ ChildrenOf(q) = {}

IsResponseStart(i) ==
  /\ inv[i].kind = "send"
  /\ "type" \in DOMAIN inv[i].payload
  /\ inv[i].payload["type"] = "http.response.start"

\* C7: recording the status of an http.response.start message never raises:
\* whatever the raw status, also one that is missing or None, the failure to
\* coerce it stays inside wrapped_send and the message is forwarded to send
C7_StatusRecordingNeverRaises ==
  \A i \in InvIds :
    IsResponseStart(i) =>
      /\ inv[i].exc.at \notin {"payload['status']", "int(status_code)"}
      /\ inv[i].forwarded

Contains(hay, needle) ==
  \E k \in 0..(Len(hay) - Len(needle)) :
    SubSeq(hay, k + 1, k + Len(needle)) = needle

\* the integer a raw status stands for and the outcome of its HTTP range
Coerced(sp, n, outcome) ==
  /\ "http.status_code" \in DOMAIN sp.attributes
  /\ sp.attributes["http.status_code"] = n
  /\ sp.status = Status(outcome, NoneV)

\* a raw status that is no integer
NotCoerced(sp) ==
  /\ sp.status # NoneV
  /\ sp.status.canonical_code = "UNKNOWN"
  /\ sp.status.description.k = "str"
  /\ "http.status_code" \notin DOMAIN sp.attributes

\* the statuses that coerce, each with its integer and outcome
CoercedAsClaimed(raw, sp) ==
  /\ raw = IntV(200) => Coerced(sp, 200, "OK")
  /\ raw = IntV(201) => Coerced(sp, 201, "OK")
  /\ raw = IntV(301) => Coerced(sp, 301, "OK")
  /\ raw = IntV(404) => Coerced(sp, 404, "CLIENT_ERROR")
  /\ raw = IntV(500) => Coerced(sp, 500, "SERVER_ERROR")
  /\ raw = NumericStatus => Coerced(sp, 404, "CLIENT_ERROR")
  /\ raw = PaddedStatus => Coerced(sp, 200, "OK")

\* the str statuses that do not coerce
MalformedStatuses == {WordStatus, UnprintableStatus}

\* the messages of these statuses as the code writes them
WordMessage ==
  NonIntegerPrefix \o Text(<<"'", "a", "b", "c", "'">>)
UnprintableMessage ==
  NonIntegerPrefix
    \o Text(<<"\"", "a", "'", "\\", "x", "0", "0", "\\", "u", "0", "6", "d", "d",
              "\\", "U", "0", "0", "0", "e", "0", "0", "0", "1", "\"">>)

\* C8 as claimed: the send span of an http.response.start message whose status
\* coerces to an integer has that integer as http.status_code and the status
\* outcome of its HTTP range; for a status that does not coerce the span has
\* status UNKNOWN with a message that contains the raw value, and no
\* http.status_code
C8_MessageContainsRawValue ==
  \A i \in InvIds :
    (IsResponseStart(i) /\ "status" \in DOMAIN inv[i].payload) =>
      LET raw == inv[i].payload["status"]
          sp == spans[inv[i].span]
      IN /\ CoercedAsClaimed(raw, sp)
         /\ raw \in MalformedStatuses =>
              /\ NotCoerced(sp)
              /\ Contains(sp.status.description.s, raw.s)

\* C8 amended: as claimed for a status that coerces; for a status that does not
\* coerce the span has status UNKNOWN, no http.status_code, and the message
\* 'Non-integer HTTP status: ' followed by the raw value as repr() writes it:
\* between quotes, a character that is not printable as its escape.  The
\* message contains the raw value itself when that needs no escape ('abc')
C8_StatusClassified ==
  \A i \in InvIds :
    (IsResponseStart(i) /\ "status" \in DOMAIN inv[i].payload) =>
      LET raw == inv[i].payload["status"]
          sp == spans[inv[i].span]
          message(text) == NotCoerced(sp) /\ sp.status.description.s = text
      IN /\ CoercedAsClaimed(raw, sp)
         /\ raw = WordStatus =>
              /\ message(WordMessage)
              /\ Contains(sp.status.description.s, raw.s)
         /\ raw = UnprintableStatus => message(UnprintableMessage)

\* a 404 response and a response with the status that holds characters that
\* are not printable were sent and their spans are ended
C8_Witness ==
  \E i, j \in InvIds :
    /\ IsResponseStart(i) /\ IsResponseStart(j)
    /\ inv[i].pc = "returned" /\ inv[j].pc = "returned"
    /\ inv[i].payload = [type |-> "http.response.start", status |-> IntV(404)]
    /\ inv[j].payload = [type |-> "http.response.start",
                         status |-> UnprintableStatus]

\* C9: get_header_from_scope never raises: for every scope, also one without
\* headers or with header bytes that are no UTF-8, it returns a sequence
C9_HeaderAccessorTotal ==
  \A r \in Requests :
    pc[r] # "idle" =>
      /\ get_header_from_scope(scope[r], TraceParent).raised = ""
      /\ exc[r].at # "get_header_from_scope"

\* C10: for a single-call and for a double-call application alike, the handler
\* runs with the wrapped primitives once the root span is started
C10_BothShapesRun ==
  \A r \in Requests : root[r] # 0 => ran[r]

\* the message of an invocation has the given type
HasType(i, type) ==
  /\ inv[i].payload # NoneV
  /\ "type" \in DOMAIN inv[i].payload
  /\ inv[i].payload["type"] = type

\* a websocket frame in the direction of its wrapper
IsWebsocketFrame(i) ==
  \/ inv[i].kind = "receive" /\ HasType(i, "websocket.receive")
  \/ inv[i].kind = "send" /\ HasType(i, "websocket.send")

\* C11: the child span of a websocket.receive message that receive returned, or
\* of a websocket.send message passed to wrapped_send, has when it is ended
\* http.status_code 200, the status OK and the text of the message as
\* http.status_text
C11_WebsocketFrameRecorded ==
  \A i \in InvIds :
    (IsWebsocketFrame(i) /\ spans[inv[i].span].ends > 0) =>
      LET sp == spans[inv[i].span] IN
        /\ "http.status_code" \in DOMAIN sp.attributes
        /\ sp.attributes["http.status_code"] = 200
        /\ sp.status = Status("OK", NoneV)
        /\ "http.status_text" \in DOMAIN sp.attributes
        /\ sp.attributes["http.status_text"] = inv[i].payload["text"]

\* a text frame was received and one was sent, and both spans are ended
C11_Witness ==
  \E i, j \in InvIds :
    /\ inv[i].kind = "receive" /\ HasType(i, "websocket.receive")
    /\ inv[j].kind = "send" /\ HasType(j, "websocket.send")
    /\ spans[inv[i].span].ends = 1 /\ spans[inv[j].span].ends = 1
    /\ inv[i].payload["text"] = "hello" /\ inv[j].payload["text"] = "hello"

\* the attributes of the request itself; any other key of the result would
\* describe the peer
RequestAttributes ==
  {"component", "http.method", "http.server_name", "http.scheme", "http.host",
   "http.port", "http.target", "http.flavor"}
PeerAttributes(attributes) == DOMAIN attributes \ RequestAttributes

\* C12: collect_request_attributes includes the optional attributes exactly
\* when the scope has their fields: the peer address and port if and only if
\* the scope has a client, http.target if and only if the path is present and
\* not empty, http.flavor if and only if the HTTP version is present and not
\* empty
C12_OptionalAttributes ==
  \A r \in Requests :
    (pc[r] # "idle" /\ collect_request_attributes(scope[r]).raised = "") =>
      LET sc == scope[r]
          attributes == collect_request_attributes(sc).v
      IN /\ PeerAttributes(attributes) # {} <=> "client" \in DOMAIN sc
         /\ "http.target" \in DOMAIN attributes
              <=> ("path" \in DOMAIN sc /\ sc["path"] # "")
         /\ "http.flavor" \in DOMAIN attributes
              <=> ("http_version" \in DOMAIN sc /\ sc["http_version"] # "")

\* invocation i was made before invocation j by the application of one request
Before(i, j) == i < j /\ inv[i].req = inv[j].req
\* the wrapper of i had returned when the application invoked j
ReturnedBefore(i, j) == inv[i].pc = "returned" /\ inv[i].left < inv[j].called
Ended(s) == spans[s].ends > 0

\* C13 as stated: for invocations A before B of one request, overlapping or
\* not, the span of A is started before the span of B and ended before it
C13_StrictCallOrder ==
  \A i, j \in InvIds :
    (Before(i, j) /\ inv[i].exc = NoExc) =>
      /\ spans[inv[i].span].start_time < spans[inv[j].span].start_time
      /\ Ended(inv[j].span) =>
           /\ Ended(inv[i].span)
           /\ spans[inv[i].span].end_time < spans[inv[j].span].end_time

\* C13, amended: for invocations A before B of one request the span of A is
\* started before the span of B; when the wrapper of A returned before B was
\* invoked, the span of A is ended before the span of B is started; when both
\* wrappers returned, their spans are ended in the order of the returns
C13_StartOrderAndSequentialEnds ==
  \A i, j \in InvIds :
    Before(i, j) =>
      /\ spans[inv[i].span].start_time < spans[inv[j].span].start_time
      /\ ReturnedBefore(i, j) =>
           /\ Ended(inv[i].span)
           /\ spans[inv[i].span].end_time < spans[inv[j].span].start_time
      /\ (inv[i].pc = "returned" /\ inv[j].pc = "returned") =>
           /\ Ended(inv[i].span) /\ Ended(inv[j].span)
           /\ (spans[inv[i].span].end_time < spans[inv[j].span].end_time
                 <=> inv[i].left < inv[j].left)

\* three invocations: the first returned before the second was made, the third
\* was made while the second was suspended and returned before it
C13_Witness ==
  \E i, j, k \in InvIds :
    /\ Before(i, j) /\ Before(j, k)
    /\ ReturnedBefore(i, j)
    /\ inv[j].pc = "returned" /\ inv[k].pc = "returned"
    /\ inv[k].called < inv[j].left
    /\ spans[inv[k].span].end_time < spans[inv[j].span].end_time

\* the span of invocation i carries the name and the tag of its message
RenamedAndTagged(i) ==
  LET sp == spans[inv[i].span] IN
    /\ sp.name = span_name(inv[i].req) \o " (" \o inv[i].payload["type"] \o ")"
    /\ "type" \in DOMAIN sp.attributes
    /\ sp.attributes["type"] = inv[i].payload["type"]

\* the status of the message of a send invocation is on its span
StatusRecorded(i) ==
  HasType(i, "http.response.start") => spans[inv[i].span].status # NoneV

\* the span of invocation i is as start_span made it
Untouched(i) ==
  LET sp == spans[inv[i].span] IN
    /\ sp.name \in {span_name(inv[i].req) \o " (unknown-receive)",
                    span_name(inv[i].req) \o " (unknown-send)"}
    /\ DOMAIN sp.attributes = {}
    /\ sp.status = NoneV

\* C14: an invocation that completes without failure starts its span, calls
\* the primitive, ends the span after the primitive returned and then returns.
\* While send is running the span is open, the status is recorded, the span
\* renamed and tagged and the message forwarded; while receive is running the
\* span is open and untouched; when a wrapper has returned its span is ended,
\* at the time of the return, renamed and tagged before its end, and the
\* message is with the application
C14_WrapperEventOrder ==
  \A i \in InvIds :
    LET sp == spans[inv[i].span] IN
      /\ sp.start_time = inv[i].called
      /\ (inv[i].pc = "awaiting" /\ inv[i].kind = "send") =>
           /\ sp.ends = 0
           /\ StatusRecorded(i) /\ RenamedAndTagged(i)
           /\ inv[i].forwarded /\ inv[i].out # NoneV
      /\ (inv[i].pc = "awaiting" /\ inv[i].kind = "receive") =>
           /\ sp.ends = 0
           /\ Untouched(i)
           /\ inv[i].payload = NoneV /\ inv[i].out = NoneV
      /\ inv[i].pc = "returned" =>
           /\ sp.ends = 1 /\ sp.late = 0
           /\ sp.start_time < sp.end_time
           /\ sp.end_time = inv[i].left
           /\ RenamedAndTagged(i)
           /\ inv[i].out # NoneV

\* a receive and a send that returned, and a send suspended in the primitive
C14_Witness ==
  \E i, j, k \in InvIds :
    /\ inv[i].kind = "receive" /\ inv[i].pc = "returned"
    /\ inv[j].kind = "send" /\ inv[j].pc = "returned"
    /\ inv[k].kind = "send" /\ inv[k].pc = "awaiting"
    /\ spans[inv[i].span].ends = 1 /\ spans[inv[j].span].ends = 1
    /\ spans[inv[k].span].ends = 0

\* the invocations of request r are those of one HTTP exchange, all returned:
\* the request received, the response started with status 200, its body sent
IsExchange(r) ==
  /\ Cardinality(InvOf(r)) = 3
  /\ \A i \in InvOf(r) : inv[i].pc = "returned"
  /\ \E i \in InvOf(r) : inv[i].kind = "receive" /\ HasType(i, "http.request")
  /\ \E i \in InvOf(r) :
       /\ inv[i].kind = "send"
       /\ inv[i].payload = [type |-> "http.response.start", status |-> IntV(200)]
  /\ \E i \in InvOf(r) : inv[i].kind = "send" /\ HasType(i, "http.response.body")

\* the child spans of request r with the given message type as their tag
Tagged(r, type) ==
  {s \in ChildrenOf(r) :
     "type" \in DOMAIN spans[s].attributes /\ spans[s].attributes["type"] = type}

\* the path of the request, "/" for a scope without one
PathOrSlash(r) == IF "path" \in DOMAIN scope[r] THEN scope[r]["path"] ELSE "/"

\* C15: the root span has the path of the request as its name, "/" when the
\* scope has no path; every ended child span is named "<span name> (<message
\* type>)" and tagged with the type of its message, none keeps a provisional
\* name; after one HTTP exchange (http.request received, http.response.start
\* with status 200 and http.response.body sent) the request has one root span
\* named by the path and child spans tagged http.request and
\* http.response.start, the latter with http.status_code 200
C15_SpanNamesAndTree ==
  /\ \A r \in Requests :
       root[r] # 0 =>
         spans[root[r]].name = PathOrSlash(r)
  /\ \A i \in InvIds :
       Ended(inv[i].span) =>
         /\ RenamedAndTagged(i)
         /\ spans[inv[i].span].name # PathOrSlash(inv[i].req) \o " (unknown-receive)"
         /\ spans[inv[i].span].name # PathOrSlash(inv[i].req) \o " (unknown-send)"
  /\ \A r \in Requests :
       (pc[r] = "returned" /\ IsExchange(r)) =>
         /\ Cardinality(RootSpans) = 1
         /\ Cardinality(ChildrenOf(r)) = 3
         /\ Cardinality(Tagged(r, "http.request")) = 1
         /\ Cardinality(Tagged(r, "http.response.start")) = 1
         /\ \A s \in Tagged(r, "http.response.start") :
              /\ "http.status_code" \in DOMAIN spans[s].attributes
              /\ spans[s].attributes["http.status_code"] = 200
              /\ spans[s].name = PathOrSlash(r) \o " (http.response.start)"

\* the exchange was served for the path /x and the application returned
C15_Witness ==
  /\ pc[1] = "returned" /\ IsExchange(1)
  /\ scope[1]["path"] = "/x"
  /\ spans[root[1]].name = "/x"
  /\ \E i \in InvOf(1) : spans[inv[i].span].name = "/x (http.request)"

\* C16: the middleware is transparent: the application is invoked with the
\* scope the middleware was called with, wrapped_send hands to send exactly the
\* message it was given and wrapped_receive returns exactly the message
\* receive produced
C16_Transparent ==
  /\ \A r \in Requests : ran[r] => app_scope[r] = scope[r]
  /\ \A i \in InvIds :
       /\ (inv[i].kind = "send" /\ inv[i].forwarded) => inv[i].out = inv[i].payload
       /\ (inv[i].kind = "receive" /\ inv[i].pc = "returned") =>
            inv[i].out = inv[i].payload

\* a response with the status "404" was forwarded and a websocket frame was
\* returned to the application, behind a scope with headers
C16_Witness ==
  \E i, j \in InvIds :
    /\ ran[1] /\ scope[1]["headers"] = TracedHeaders
    /\ inv[i].kind = "send" /\ inv[i].forwarded
    /\ inv[i].out = [type |-> "http.response.start",
                     status |-> NumericStatus]
    /\ inv[j].kind = "receive" /\ inv[j].pc = "returned"
    /\ inv[j].out = [type |-> "websocket.receive", text |-> "hello"]

\* the fields of the scope that the request attributes always include: the
\* type, the method, the server address and the scheme
ExpectedFields == {"type", "method", "server", "scheme"}

\* C17: a call whose scope lacks an expected field fails at once with a lookup
\* failure raised to the caller: the application is not invoked, no wrapper
\* runs and the call leaves no span behind, started or open
C17_MissingFieldFailsFast ==
  \A r \in Requests :
    (pc[r] # "idle" /\ ~(ExpectedFields \subseteq DOMAIN scope[r])) =>
      /\ pc[r] = "raised"
      /\ exc[r].type \in {"KeyError", "LookupError"}
      /\ ~ran[r] /\ app_scope[r] = NoneV
      /\ root[r] = 0 /\ InvOf(r) = {}
      /\ \A s \in SpanIds : Ended(s)

\* nothing was raised in the run of request r and its application returned
\* after every wrapper it called had returned
AwaitedAll(r) ==
  /\ pc[r] = "returned"
  /\ \A i \in InvOf(r) :
       inv[i].pc = "returned" /\ inv[i].left < spans[root[r]].end_time

\* C18: when nothing raises and the application awaits every wrapped receive
\* and send before it returns, every child span of the request is started and
\* ended before the root span is ended: no child is open at the end of the
\* root span and no span event of the request follows it
C18_RootEndedLast ==
  \A r \in Requests :
    AwaitedAll(r) =>
      /\ spans[root[r]].ends = 1
      /\ \A s \in ChildrenOf(r) :
           /\ Ended(s)
           /\ spans[s].start_time < spans[s].end_time
           /\ spans[s].end_time < spans[root[r]].end_time

\* the application awaited three invocations and returned
C18_Witness ==
  /\ AwaitedAll(1)
  /\ Cardinality(InvOf(1)) = 3
  /\ Cardinality(ChildrenOf(1)) = 3
  /\ \A s \in ChildrenOf(1) : spans[s].end_time < spans[root[1]].end_time

\* C19: no child span is ended more than once and no update (set_attribute,
\* set_status, update_name) reaches a child span after its end
C19_ChildEndedOnceThenLeftAlone ==
  \A i \in InvIds :
    /\ spans[inv[i].span].ends <= 1
    /\ spans[inv[i].span].late = 0

\* a receive span and a send span were updated, then ended once
C19_Witness ==
  \E i, j \in InvIds :
    /\ inv[i].kind = "receive" /\ inv[j].kind = "send"
    /\ inv[i].pc = "returned" /\ inv[j].pc = "returned"
    /\ HasType(i, "websocket.receive") /\ HasType(j, "http.response.start")
    /\ spans[inv[i].span].ends = 1 /\ spans[inv[j].span].ends = 1
    /\ spans[inv[i].span].status # NoneV /\ spans[inv[j].span].status # NoneV

\* the raw statuses that int() turns into an integer
CoercibleStatuses ==
  {IntV(200), IntV(201), IntV(301), IntV(404), IntV(500),
   NumericStatus, PaddedStatus}

\* the message of invocation i is one whose status the wrapper records
CarriesStatusCode(i) ==
  \/ /\ inv[i].kind = "send" /\ HasType(i, "http.response.start")
     /\ "status" \in DOMAIN inv[i].payload
     /\ inv[i].payload["status"] \in CoercibleStatuses
  \/ IsWebsocketFrame(i)

\* C20: a child span has http.status_code only if its message is an
\* http.response.start whose status coerces to an integer, a websocket.send or
\* a websocket.receive; the span of any other message (http.request,
\* http.response.body, http.disconnect) has no http.status_code and no status
C20_StatusCodeOnlyWhereRecorded ==
  \A i \in InvIds :
    LET sp == spans[inv[i].span] IN
      /\ "http.status_code" \in DOMAIN sp.attributes => CarriesStatusCode(i)
      /\ (\/ HasType(i, "http.request")
          \/ HasType(i, "http.response.body")
          \/ HasType(i, "http.disconnect")) =>
           /\ "http.status_code" \notin DOMAIN sp.attributes
           /\ sp.status = NoneV

\* the spans of a received http.request and of a sent http.response.body are
\* ended without a status
C20_Witness ==
  \E i, j \in InvIds :
    /\ inv[i].kind = "receive" /\ HasType(i, "http.request")
    /\ inv[j].kind = "send" /\ HasType(j, "http.response.body")
    /\ Ended(inv[i].span) /\ Ended(inv[j].span)
    /\ "http.status_code" \notin DOMAIN spans[inv[i].span].attributes
    /\ spans[inv[j].span].status = NoneV

====
